---------------------------- MODULE Spec2Model ----------------------------
(***************************************************************************)
(* Model of the workload segregation engine of SegregationAlgorithm.py:    *)
(* the VM/Host entity model, the ranking functions, migrate_vm, and the    *)
(* strategies segregate_cluster and magic/prepare_emptiest_host.           *)
(*                                                                         *)
(* Memory is counted in GiB: every quantity of the source that is          *)
(* compared or added (memory_total, memory_allocated, memory_required,     *)
(* min_memory_per_host) is a whole number of GiB here.                     *)
(***************************************************************************)
EXTENDS Integers, Sequences, FiniteSets, TLC

(***************************************************************************)
(* Bounds of the model.                                                    *)
(***************************************************************************)
NumHosts == 3
NumVMs == 3
\* at most this many VMs of a fleet have an affinity group
MaxAffinityVMs == 1
\* at most this many hosts of a fleet are dedicated
MaxDedicated == 1

HostIds == 1..NumHosts
VMIds == 1..NumVMs

\* memory_required of a VM is drawn from these (GiB)
VMMemories == {4, 12}
\* memory_total of every host of a fleet is drawn from these (GiB)
HostMemories == {12, 24}
OsTemplates == {"Windows", "Linux"}
AffinityGroups == {"", "G1"}

\* SegregationManager.min_memory_per_host, 8*1024*1024*1024 bytes
min_memory_per_host == 8

VARIABLES
    vm,         \* VM attributes: os_template, memory_required, affinity_group
    hosts,      \* Host attributes: vms, memory_total, memory_allocated, dedicated
    hosts0,     \* the fleet as it was handed to the running run
    dry_run,    \* SegregationManager.dry_run
    strategy,   \* which entry point runs: "cluster", "magic", "api", "loop2",
                \* "soft", "live", or a function called alone ("rank", "rank2")
    pc,         \* position of the entry point
    loc,        \* locals of the entry point that runs
    stack,      \* call stack of magic: one frame per active call
    raised,     \* the exception that left the entry point, "" if none
    last,       \* the last migrate_vm call and what came of it
    executor,   \* what ias_handler.migrate_vm has answered so far
    host_list,  \* the list handed to the entry point
    run,        \* 1 in the first run of the entry point, 2 in the second
    seen,       \* the fleets with which this run began an iteration of
                \* the loop of segregate_cluster
    moved       \* the fleet the running iteration of the loop began from,
                \* and how many VMs it has moved in its Linux step and in
                \* its Windows step

vars == <<vm, hosts, hosts0, dry_run, strategy, pc, loc, stack, raised, last,
          executor, host_list, run, seen, moved>>

(***************************************************************************)
(* Sequences.                                                              *)
(***************************************************************************)
Range(s) == {s[i] : i \in DOMAIN s}

Front(s) == SubSeq(s, 1, Len(s) - 1)

Contains(s, x) == \E i \in DOMAIN s : s[i] = x

\* list.remove(x): drops the first occurrence of x
RemoveFirst(s, x) ==
    LET i == CHOOSE j \in DOMAIN s : s[j] = x /\ \A k \in 1..(j - 1) : s[k] # x
    IN SubSeq(s, 1, i - 1) \o SubSeq(s, i + 1, Len(s))

RECURSIVE SumSeq(_, _)
SumSeq(s, k) == IF s = <<>> THEN 0 ELSE k[s[1]] + SumSeq(Tail(s), k)

\* sorted(s, key=k): stable, ascending
InsertAsc(s, x, k) ==
    LET n == Cardinality({i \in DOMAIN s : k[s[i]] <= k[x]})
    IN SubSeq(s, 1, n) \o <<x>> \o SubSeq(s, n + 1, Len(s))

RECURSIVE SortAsc(_, _)
SortAsc(s, k) ==
    IF s = <<>> THEN <<>> ELSE InsertAsc(SortAsc(Front(s), k), s[Len(s)], k)

\* sorted(s, key=k, reverse=True): stable, descending
InsertDesc(s, x, k) ==
    LET n == Cardinality({i \in DOMAIN s : k[s[i]] >= k[x]})
    IN SubSeq(s, 1, n) \o <<x>> \o SubSeq(s, n + 1, Len(s))

RECURSIVE SortDesc(_, _)
SortDesc(s, k) ==
    IF s = <<>> THEN <<>> ELSE InsertDesc(SortDesc(Front(s), k), s[Len(s)], k)

(***************************************************************************)
(* class VM                                                                *)
(***************************************************************************)
has_affinity(v) == vm[v].affinity_group # ""

is_windows(v) == vm[v].os_template = "Windows"

memory_required == [v \in DOMAIN vm |-> vm[v].memory_required]

(***************************************************************************)
(* class Host.  h is the fleet (a value of hosts), a a host id.            *)
(***************************************************************************)
memory_free(h, a) == h[a].memory_total - h[a].memory_allocated

amount_of_vms(h, a) == Len(h[a].vms)

\* append_vm that forgets to account for the memory of the VM
append_vm_forgets_memory(h, a, v) ==
    [h EXCEPT ![a].vms = Append(@, v)]

append_vm(h, a, v) ==
    [h EXCEPT ![a].memory_allocated = @ + vm[v].memory_required,
              ![a].vms = Append(@, v)]

\* remove_vm that gives the memory back and leaves the VM in the list
remove_vm_keeps_vm(h, a, v) ==
    [h EXCEPT ![a].memory_allocated = @ - vm[v].memory_required]

\* list.remove raises ValueError when v is not in the list, after
\* memory_allocated was decreased: the caller sees the raise, vms is as it was
remove_vm(h, a, v) ==
    [h EXCEPT ![a].memory_allocated = @ - vm[v].memory_required,
              ![a].vms = IF Contains(@, v) THEN RemoveFirst(@, v) ELSE @]

amount_of_windows_vms(h, a, filter_affinity) ==
    Cardinality({i \in DOMAIN h[a].vms :
                    /\ is_windows(h[a].vms[i])
                    /\ (filter_affinity => ~has_affinity(h[a].vms[i]))})

is_dedicated(h, a) == h[a].dedicated

(***************************************************************************)
(* Ranking functions of SegregationManager.  hl is a list of host ids.     *)
(***************************************************************************)
\* a pass that copies tmp_a as it is, a host as often as it is listed
Dedup_keeps_repeats(s) == s

RECURSIVE Dedup(_)
Dedup(s) ==
    IF s = <<>> THEN <<>>
    ELSE LET d == Dedup(Front(s))
         IN IF Contains(d, s[Len(s)]) THEN d ELSE Append(d, s[Len(s)])

\* tmp_b after the two nested loops: for every i, in order, every n that is
\* i itself or has i's memory_free
most_empty_tmp_b(h, hl) ==
    LET row(i) == SelectSeq(hl, LAMBDA n :
                      n = i \/ memory_free(h, n) = memory_free(h, i))
        RECURSIVE cat(_)
        cat(k) == IF k = 0 THEN <<>> ELSE cat(k - 1) \o row(hl[k])
    IN cat(Len(hl))

\* a ranking that puts the host with the least free memory first
most_empty_stack_fullest_first(h, hl) ==
    LET tmp_b == most_empty_tmp_b(h, hl)
        tmp_a == SortAsc(tmp_b, [a \in DOMAIN h |-> memory_free(h, a)])
    IN Dedup(tmp_a)

\* tmp_a is what the last pass of the inner loop assigned: the last n is the
\* last i, so it is tmp_b sorted by memory_free, reverse=True
most_empty_stack(h, hl) ==
    LET tmp_b == most_empty_tmp_b(h, hl)
        tmp_a == SortDesc(tmp_b, [a \in DOMAIN h |-> memory_free(h, a)])
    IN Dedup(tmp_a)

\* most_windows_stack that keeps the hosts below min_memory_per_host
most_windows_stack_keeps_full(h, hl, filter_full) ==
    LET most_win_dq == SelectSeq(hl, LAMBDA a : ~is_dedicated(h, a))
        key == [a \in DOMAIN h |-> amount_of_windows_vms(h, a, FALSE)]
    IN IF filter_full THEN SortDesc(most_win_dq, key) ELSE SortDesc(hl, key)

most_windows_stack(h, hl, filter_full) ==
    LET most_win_dq == SelectSeq(hl, LAMBDA a :
                           /\ ~is_dedicated(h, a)
                           /\ memory_free(h, a) >= min_memory_per_host)
        key == [a \in DOMAIN h |-> amount_of_windows_vms(h, a, FALSE)]
    IN IF filter_full THEN SortDesc(most_win_dq, key) ELSE SortDesc(hl, key)

\* least_windows_stack that counts the Windows VMs of an affinity group too
least_windows_stack_counts_affinity(h, hl) ==
    LET least_win_dq == SelectSeq(hl, LAMBDA a :
                            /\ ~is_dedicated(h, a)
                            /\ amount_of_windows_vms(h, a, FALSE) > 0)
        key == [a \in DOMAIN h |-> amount_of_windows_vms(h, a, FALSE)]
    IN SortAsc(least_win_dq, key)

least_windows_stack(h, hl) ==
    LET least_win_dq == SelectSeq(hl, LAMBDA a :
                            /\ ~is_dedicated(h, a)
                            /\ amount_of_windows_vms(h, a, TRUE) > 0)
        key == [a \in DOMAIN h |-> amount_of_windows_vms(h, a, TRUE)]
    IN SortAsc(least_win_dq, key)

(***************************************************************************)
(* SegregationManager.migrate_vm: what it raises ("" when it returns) and  *)
(* the fleet it leaves.                                                    *)
(***************************************************************************)
\* migrate_vm that compares the VM with the size of the destination, not
\* with what is free on it
migrate_vm_checks_total(h, v, src_host, dst_host) ==
    IF has_affinity(v)
    THEN [raised |-> "MigrateVMWithAffinity", hosts |-> h]
    ELSE IF src_host = dst_host
    THEN [raised |-> "SameSourceAndDestinationHost", hosts |-> h]
    ELSE IF h[dst_host].memory_total >= vm[v].memory_required
    THEN [raised |-> "", hosts |-> append_vm(remove_vm(h, src_host, v), dst_host, v)]
    ELSE [raised |-> "NotEnoughResources", hosts |-> h]

\* migrate_vm that looks at the free memory before it compares the hosts
migrate_vm_resources_first(h, v, src_host, dst_host) ==
    IF has_affinity(v)
    THEN [raised |-> "MigrateVMWithAffinity", hosts |-> h]
    ELSE IF memory_free(h, dst_host) < vm[v].memory_required
    THEN [raised |-> "NotEnoughResources", hosts |-> h]
    ELSE IF src_host = dst_host
    THEN [raised |-> "SameSourceAndDestinationHost", hosts |-> h]
    ELSE [raised |-> "", hosts |-> append_vm(remove_vm(h, src_host, v), dst_host, v)]

\* migrate_vm that takes the VM off the source before it looks at the
\* free memory of the destination
migrate_vm_removes_first(h, v, src_host, dst_host) ==
    IF has_affinity(v)
    THEN [raised |-> "MigrateVMWithAffinity", hosts |-> h]
    ELSE IF src_host = dst_host
    THEN [raised |-> "SameSourceAndDestinationHost", hosts |-> h]
    ELSE IF memory_free(h, dst_host) >= vm[v].memory_required
    THEN [raised |-> "", hosts |-> append_vm(remove_vm(h, src_host, v), dst_host, v)]
    ELSE [raised |-> "NotEnoughResources", hosts |-> remove_vm(h, src_host, v)]

\* migrate_vm without the affinity check
migrate_vm_ignores_affinity(h, v, src_host, dst_host) ==
    IF src_host = dst_host
    THEN [raised |-> "SameSourceAndDestinationHost", hosts |-> h]
    ELSE IF memory_free(h, dst_host) >= vm[v].memory_required
    THEN [raised |-> "", hosts |-> append_vm(remove_vm(h, src_host, v), dst_host, v)]
    ELSE [raised |-> "NotEnoughResources", hosts |-> h]

\* migrate_vm that compares the hosts before it looks at the affinity group
migrate_vm_same_host_first(h, v, src_host, dst_host) ==
    IF src_host = dst_host
    THEN [raised |-> "SameSourceAndDestinationHost", hosts |-> h]
    ELSE IF has_affinity(v)
    THEN [raised |-> "MigrateVMWithAffinity", hosts |-> h]
    ELSE IF memory_free(h, dst_host) >= vm[v].memory_required
    THEN [raised |-> "", hosts |-> append_vm(remove_vm(h, src_host, v), dst_host, v)]
    ELSE [raised |-> "NotEnoughResources", hosts |-> h]

migrate_vm(h, v, src_host, dst_host) ==
    IF has_affinity(v)
    THEN [raised |-> "MigrateVMWithAffinity", hosts |-> h]
    ELSE IF src_host = dst_host
    THEN [raised |-> "SameSourceAndDestinationHost", hosts |-> h]
    ELSE IF memory_free(h, dst_host) >= vm[v].memory_required
    THEN IF Contains(h[src_host].vms, v)
         THEN [raised |-> "", hosts |-> append_vm(remove_vm(h, src_host, v), dst_host, v)]
         ELSE [raised |-> "ValueError", hosts |-> remove_vm(h, src_host, v)]
    ELSE [raised |-> "NotEnoughResources", hosts |-> h]

\* a call that asks the executor without looking at dry_run
Call_ignores_dry_run(v, src_host, dst_host, ok) ==
    LET m == migrate_vm(hosts, v, src_host, dst_host)
        executed == m.raised = ""
    IN [raised |-> m.raised,
        hosts |-> m.hosts,
        last |-> [vm |-> v, src |-> src_host, dst |-> dst_host,
                  dst_free |-> memory_free(hosts, dst_host),
                  raised |-> m.raised,
                  returned |-> IF m.raised = "" THEN "True" ELSE "",
                  executed |-> executed,
                  exec_ok |-> executed /\ ok],
        executor |-> [succeeded |-> executor.succeeded \/ (executed /\ ok),
                      failed |-> executor.failed \/ (executed /\ ~ok)]]

\* One call of migrate_vm as the strategies see it. ok is the answer of
\* ias_handler.migrate_vm, asked only when the model was updated and
\* dry_run is off; migrate_vm returns True whatever that answer is.
Call(v, src_host, dst_host, ok) ==
    LET m == migrate_vm(hosts, v, src_host, dst_host)
        executed == m.raised = "" /\ ~dry_run
    IN [raised |-> m.raised,
        hosts |-> m.hosts,
        last |-> [vm |-> v, src |-> src_host, dst |-> dst_host,
                  dst_free |-> memory_free(hosts, dst_host),
                  raised |-> m.raised,
                  returned |-> IF m.raised = "" THEN "True" ELSE "",
                  executed |-> executed,
                  exec_ok |-> executed /\ ok],
        executor |-> [succeeded |-> executor.succeeded \/ (executed /\ ok),
                      failed |-> executor.failed \/ (executed /\ ~ok)]]

\* the answers the executor can give to the call
Answers(v, src_host, dst_host) ==
    IF migrate_vm(hosts, v, src_host, dst_host).raised = "" /\ ~dry_run
    THEN BOOLEAN ELSE {FALSE}

NoCall ==
    [vm |-> 0, src |-> 0, dst |-> 0, dst_free |-> 0, raised |-> "", returned |-> "",
     executed |-> FALSE, exec_ok |-> FALSE]

(***************************************************************************)
(* The fleet handed to a run: VMs with their attributes, placed on hosts   *)
(* of one memory size, memory_allocated being the sum over the VMs placed. *)
(***************************************************************************)
AllVMs == [i \in 1..NumVMs |-> i]

AllHosts == [i \in 1..NumHosts |-> i]

\* an element of a host list that is not an instance of Host
NotAHost == 0

\* the lists handed to an entry point: every host once, no host at all,
\* a list with an element that is no Host, a list with one host twice
HostLists ==
    {AllHosts, <<>>, Append(AllHosts, NotAHost), Append(AllHosts, AllHosts[1])}

NoneMoved == [from |-> <<>>, linux |-> 0, windows |-> 0]

NoLocals ==
    [most_windows_host_lst |-> <<>>, most_empty_host_lst |-> <<>>,
     least_windows_host_lst |-> <<>>, queue |-> <<>>, dst_idx |-> 0,
     iterate |-> TRUE]

\* VMs are numbered host by host (place is non-decreasing): with the
\* attributes of every VM free, this gives every host every list of VMs.
Placements ==
    {place \in [VMIds -> HostIds] :
        \A v \in VMIds : v > 1 => place[v - 1] <= place[v]}

InitFleet ==
    /\ vm \in {f \in [VMIds -> [os_template : OsTemplates,
                                 memory_required : VMMemories,
                                 affinity_group : AffinityGroups]] :
                  Cardinality({v \in VMIds : f[v].affinity_group # ""})
                      <= MaxAffinityVMs}
    /\ \E place \in Placements, total \in HostMemories,
          ded \in {d \in SUBSET HostIds : Cardinality(d) <= MaxDedicated} :
          hosts = [a \in HostIds |->
                     LET on == SelectSeq(AllVMs, LAMBDA v : place[v] = a)
                     IN [vms |-> on,
                         memory_total |-> total,
                         memory_allocated |-> SumSeq(on, memory_required),
                         dedicated |-> a \in ded]]
    /\ hosts0 = hosts
    /\ dry_run \in BOOLEAN
    /\ loc = NoLocals
    /\ stack = <<>>
    /\ raised = ""
    /\ last = NoCall
    /\ executor = [succeeded |-> FALSE, failed |-> FALSE]
    /\ run = 1
    /\ seen = {}
    /\ moved = NoneMoved

(***************************************************************************)
(* migrate_vm called on its own, with any VM of any source host and any    *)
(* destination.                                                            *)
(***************************************************************************)
MaxCalls == 1

InitMigrate ==
    /\ InitFleet
    /\ strategy = "api"
    /\ host_list = AllHosts
    /\ pc = 0

ApiMigrate ==
    /\ strategy = "api"
    /\ pc < MaxCalls
    /\ \E src_host \in HostIds, dst_host \in HostIds :
         \E v \in Range(hosts[src_host].vms) :
           \E ok \in Answers(v, src_host, dst_host) :
             LET c == Call(v, src_host, dst_host, ok)
             IN /\ hosts' = c.hosts
                /\ last' = c.last
                /\ executor' = c.executor
    /\ pc' = pc + 1
    /\ UNCHANGED <<vm, hosts0, dry_run, strategy, host_list, seen, moved, run, loc, stack, raised>>

NextMigrate == ApiMigrate

SpecMigrate == InitMigrate /\ [][NextMigrate]_vars

\* migrate_vm called with a VM that is not in the vms of the source host
\* it is called with
ApiMigrateForeign ==
    /\ strategy = "api"
    /\ pc < MaxCalls
    /\ \E src_host \in HostIds, dst_host \in HostIds :
         \E v \in VMIds \ Range(hosts[src_host].vms) :
           \E ok \in Answers(v, src_host, dst_host) :
             LET c == Call(v, src_host, dst_host, ok)
             IN /\ hosts' = c.hosts
                /\ last' = c.last
                /\ executor' = c.executor
    /\ pc' = pc + 1
    /\ UNCHANGED <<vm, hosts0, dry_run, strategy, host_list, seen, moved, run, loc, stack, raised>>

NextForeign == ApiMigrate \/ ApiMigrateForeign

SpecForeign == InitMigrate /\ [][NextForeign]_vars

(***************************************************************************)
(* segregate_cluster.  One step per pass of a loop header and per call of  *)
(* migrate_vm.  loc.queue holds what the running for loop has still to     *)
(* visit (filter and sorted build their lists before the loop starts).     *)
(***************************************************************************)
Raise(e) ==
    /\ raised' = e
    /\ pc' = "raised"
    /\ stack' = <<>>

\* lines 509-514: InvalidHostList when an element of the list is not a
\* Host, and nothing else is looked at
SC_Enter ==
    /\ strategy = "cluster"
    /\ pc = "entry"
    /\ IF Contains(host_list, NotAHost)
       THEN Raise("InvalidHostList")
       ELSE /\ pc' = "while"
            /\ UNCHANGED <<raised, stack>>
    /\ UNCHANGED <<vm, hosts, hosts0, dry_run, strategy, host_list, seen, moved, run, loc, last, executor>>

\* lines 516-525: the loop test, the two rankings, the list of Linux VMs
\* of most_windows_host_lst[0]
SC_While ==
    /\ strategy = "cluster"
    /\ pc = "while"
    /\ IF ~loc.iterate
       THEN /\ pc' = "done"
            /\ UNCHANGED <<loc, raised, stack, seen, moved>>
       ELSE LET mw == most_windows_stack(hosts, host_list, TRUE)
                me == most_empty_stack(hosts, host_list)
            IN /\ seen' = seen \cup {hosts}
               /\ moved' = [NoneMoved EXCEPT !.from = hosts]
               /\ IF mw = <<>>
                  THEN /\ Raise("IndexError")
                       /\ UNCHANGED loc
                  ELSE /\ loc' = [loc EXCEPT
                                !.most_windows_host_lst = mw,
                                !.most_empty_host_lst = me,
                                !.queue = SelectSeq(hosts[mw[1]].vms,
                                                    LAMBDA v : ~is_windows(v))]
                       /\ pc' = "linux"
                       /\ UNCHANGED <<raised, stack>>
    /\ UNCHANGED <<vm, hosts, hosts0, dry_run, strategy, host_list, run, last, executor>>

\* lines 524-539: one Linux VM of Mc is offered to Ec; the first that
\* migrates ends the loop
SC_Linux ==
    /\ strategy = "cluster"
    /\ pc = "linux"
    /\ IF loc.queue = <<>>
       THEN /\ pc' = "least"
            /\ UNCHANGED <<hosts, last, executor, loc, raised, stack>>
       ELSE \E ok \in Answers(Head(loc.queue), loc.most_windows_host_lst[1],
                               loc.most_empty_host_lst[1]) :
              LET c == Call(Head(loc.queue), loc.most_windows_host_lst[1],
                            loc.most_empty_host_lst[1], ok)
              IN /\ hosts' = c.hosts
                 /\ last' = c.last
                 /\ executor' = c.executor
                 /\ IF c.raised = ""
                    THEN /\ pc' = "least"
                         /\ UNCHANGED <<loc, raised, stack>>
                    ELSE IF c.raised \in {"MigrateVMWithAffinity",
                                          "SameSourceAndDestinationHost",
                                          "NotEnoughResources"}
                    THEN /\ loc' = [loc EXCEPT !.queue = Tail(@)]
                         /\ UNCHANGED <<pc, raised, stack>>
                    ELSE /\ Raise(c.raised)
                         /\ UNCHANGED loc
    /\ moved' = IF hosts' # hosts THEN [moved EXCEPT !.linux = @ + 1] ELSE moved
    /\ UNCHANGED <<vm, hosts0, dry_run, strategy, host_list, seen, run>>

\* lines 541-548: the third ranking, the sorted list of Windows VMs of
\* least_windows_host_lst[0]
SC_Least ==
    /\ strategy = "cluster"
    /\ pc = "least"
    /\ LET lw == least_windows_stack(hosts, host_list)
       IN IF lw = <<>>
          THEN /\ Raise("IndexError")
               /\ UNCHANGED loc
          ELSE /\ loc' = [loc EXCEPT
                        !.least_windows_host_lst = lw,
                        !.queue = SortAsc(SelectSeq(hosts[lw[1]].vms, is_windows),
                                          memory_required),
                        !.dst_idx = 1]
               /\ pc' = "windows"
               /\ UNCHANGED <<raised, stack>>
    /\ UNCHANGED <<vm, hosts, hosts0, dry_run, strategy, host_list, seen, moved, run, last, executor>>

\* the inner loop is left: on to the next Windows VM
NextWindowsVM(l) == [l EXCEPT !.queue = Tail(@), !.dst_idx = 1]

\* lines 547-566: one Windows VM of Lc is offered to one host of
\* most_windows_host_lst
SC_Windows ==
    /\ strategy = "cluster"
    /\ pc = "windows"
    /\ IF loc.queue = <<>>
       THEN /\ pc' = "while"
            /\ UNCHANGED <<hosts, last, executor, loc, raised, stack>>
       ELSE IF loc.dst_idx > Len(loc.most_windows_host_lst)
       THEN /\ loc' = NextWindowsVM(loc)
            /\ UNCHANGED <<hosts, last, executor, pc, raised, stack>>
       ELSE \E ok \in Answers(Head(loc.queue), loc.least_windows_host_lst[1],
                               loc.most_windows_host_lst[loc.dst_idx]) :
              LET c == Call(Head(loc.queue), loc.least_windows_host_lst[1],
                            loc.most_windows_host_lst[loc.dst_idx], ok)
              IN /\ hosts' = c.hosts
                 /\ last' = c.last
                 /\ executor' = c.executor
                 /\ IF c.raised \in {"", "MigrateVMWithAffinity"}
                    THEN /\ loc' = NextWindowsVM(loc)
                         /\ UNCHANGED <<pc, raised, stack>>
                    ELSE IF c.raised = "SameSourceAndDestinationHost"
                    THEN /\ loc' = [NextWindowsVM(loc) EXCEPT !.iterate = FALSE]
                         /\ UNCHANGED <<pc, raised, stack>>
                    ELSE IF c.raised = "NotEnoughResources"
                    THEN /\ loc' = [loc EXCEPT !.dst_idx = @ + 1]
                         /\ UNCHANGED <<pc, raised, stack>>
                    ELSE /\ Raise(c.raised)
                         /\ UNCHANGED loc
    /\ moved' = IF hosts' # hosts THEN [moved EXCEPT !.windows = @ + 1] ELSE moved
    /\ UNCHANGED <<vm, hosts0, dry_run, strategy, host_list, seen, run>>

segregate_cluster == SC_Enter \/ SC_While \/ SC_Linux \/ SC_Least \/ SC_Windows

(***************************************************************************)
(* magic and prepare_emptiest_host.  stack holds one frame per active call *)
(* of magic, the running call last.  A frame is at "prep" inside           *)
(* prepare_emptiest_host and at "fill" in the loops of magic itself.       *)
(***************************************************************************)
Top == stack[Len(stack)]

SetTop(f) == [stack EXCEPT ![Len(stack)] = f]

\* lines 475-454: hl_cp = copy(host_list), then prepare_emptiest_host ranks
\* it and lists the Linux VMs of most_empty_host_lst[0], sorted
NewFrame(h, hl) ==
    LET me == most_empty_stack(h, hl)
    IN [pc |-> "prep",
        host_list |-> hl,
        hl_cp |-> hl,
        most_empty_host_lst |-> me,
        queue |-> SortAsc(SelectSeq(h[me[1]].vms, LAMBDA v : ~is_windows(v)),
                          memory_required),
        dst_idx |-> 2,
        emptiest_host |-> 0,
        src_hosts |-> <<>>,
        src_host |-> 0]

\* magic(host_list) is called: most_empty_host_lst[0] of an empty ranking
\* raises IndexError
M_Enter ==
    /\ strategy = "magic"
    /\ pc = "entry"
    /\ IF most_empty_stack(hosts, host_list) = <<>>
       THEN Raise("IndexError")
       ELSE /\ stack' = <<NewFrame(hosts, host_list)>>
            /\ pc' = "magic"
            /\ UNCHANGED raised
    /\ UNCHANGED <<vm, hosts, hosts0, dry_run, strategy, host_list, seen, moved, run, loc, last, executor>>

\* lines 479-482: after prepare_emptiest_host, the ranking is taken again
\* and the sources are the least-Windows hosts of the rest
AfterPrepare(f) ==
    LET me == most_empty_stack(hosts, f.hl_cp)
    IN [f EXCEPT !.pc = "fill",
                 !.emptiest_host = me[1],
                 !.src_hosts = least_windows_stack(hosts, Tail(me)),
                 !.queue = <<>>,
                 !.src_host = 0]

\* lines 453-467: one Linux VM of the emptiest host is offered to one of the
\* other hosts; only NotEnoughResources is caught
M_Prepare ==
    /\ strategy = "magic"
    /\ pc = "magic"
    /\ Top.pc = "prep"
    /\ IF Top.queue = <<>>
       THEN /\ stack' = SetTop(AfterPrepare(Top))
            /\ UNCHANGED <<hosts, last, executor, pc, raised>>
       ELSE IF Top.dst_idx > Len(Top.most_empty_host_lst)
       THEN /\ stack' = SetTop([Top EXCEPT !.queue = Tail(@), !.dst_idx = 2])
            /\ UNCHANGED <<hosts, last, executor, pc, raised>>
       ELSE \E ok \in Answers(Head(Top.queue), Top.most_empty_host_lst[1],
                               Top.most_empty_host_lst[Top.dst_idx]) :
              LET c == Call(Head(Top.queue), Top.most_empty_host_lst[1],
                            Top.most_empty_host_lst[Top.dst_idx], ok)
              IN /\ hosts' = c.hosts
                 /\ last' = c.last
                 /\ executor' = c.executor
                 /\ IF c.raised = ""
                    THEN /\ stack' = SetTop([Top EXCEPT !.queue = Tail(@),
                                                         !.dst_idx = 2])
                         /\ UNCHANGED <<pc, raised>>
                    ELSE IF c.raised = "NotEnoughResources"
                    THEN /\ stack' = SetTop([Top EXCEPT !.dst_idx = @ + 1])
                         /\ UNCHANGED <<pc, raised>>
                    ELSE Raise(c.raised)
    /\ UNCHANGED <<vm, hosts0, dry_run, strategy, host_list, seen, moved, run, loc>>

\* lines 482-484: the next source host and the sorted list of its Windows
\* VMs; with no source left the call returns
M_NextSource ==
    /\ strategy = "magic"
    /\ pc = "magic"
    /\ Top.pc = "fill"
    /\ Top.queue = <<>>
    /\ IF Top.src_hosts = <<>>
       THEN /\ stack' = Front(stack)
            /\ pc' = IF Len(stack) = 1 THEN "done" ELSE pc
       ELSE /\ stack' = SetTop([Top EXCEPT
                            !.src_host = Head(Top.src_hosts),
                            !.src_hosts = Tail(@),
                            !.queue = SortAsc(
                                SelectSeq(hosts[Head(Top.src_hosts)].vms, is_windows),
                                memory_required)])
            /\ UNCHANGED pc
    /\ UNCHANGED <<vm, hosts, hosts0, dry_run, strategy, host_list, seen, moved, run, loc, raised, last, executor>>

\* the loop of magic calling magic on the list with the emptiest host still
\* in it
M_Fill_keeps_pivot ==
    /\ strategy = "magic"
    /\ pc = "magic"
    /\ Top.pc = "fill"
    /\ Top.queue # <<>>
    /\ \E ok \in Answers(Head(Top.queue), Top.src_host, Top.emptiest_host) :
         LET c == Call(Head(Top.queue), Top.src_host, Top.emptiest_host, ok)
             next == [Top EXCEPT !.queue = Tail(@)]
         IN /\ hosts' = c.hosts
            /\ last' = c.last
            /\ executor' = c.executor
            /\ IF c.raised \in {"", "MigrateVMWithAffinity"}
               THEN /\ stack' = SetTop(next)
                    /\ UNCHANGED <<pc, raised>>
               ELSE IF c.raised = "NotEnoughResources"
               THEN IF ~Contains(Top.hl_cp, Top.emptiest_host)
                    THEN /\ stack' = Front(stack)
                         /\ pc' = IF Len(stack) = 1 THEN "done" ELSE pc
                         /\ UNCHANGED raised
                    ELSE LET rest == Top.hl_cp
                         IN IF most_empty_stack(hosts, rest) = <<>>
                            THEN Raise("IndexError")
                            ELSE /\ stack' = Append(
                                        SetTop([next EXCEPT !.hl_cp = rest]),
                                        NewFrame(hosts, rest))
                                 /\ UNCHANGED <<pc, raised>>
               ELSE Raise(c.raised)
    /\ UNCHANGED <<vm, hosts0, dry_run, strategy, host_list, seen, moved, run, loc>>

\* lines 484-499: one Windows VM of the source is offered to the emptiest
\* host. NotEnoughResources takes the emptiest host out of hl_cp and calls
\* magic on the rest; when it is out already (ValueError) the call returns
M_Fill ==
    /\ strategy = "magic"
    /\ pc = "magic"
    /\ Top.pc = "fill"
    /\ Top.queue # <<>>
    /\ \E ok \in Answers(Head(Top.queue), Top.src_host, Top.emptiest_host) :
         LET c == Call(Head(Top.queue), Top.src_host, Top.emptiest_host, ok)
             next == [Top EXCEPT !.queue = Tail(@)]
         IN /\ hosts' = c.hosts
            /\ last' = c.last
            /\ executor' = c.executor
            /\ IF c.raised \in {"", "MigrateVMWithAffinity"}
               THEN /\ stack' = SetTop(next)
                    /\ UNCHANGED <<pc, raised>>
               ELSE IF c.raised = "NotEnoughResources"
               THEN IF ~Contains(Top.hl_cp, Top.emptiest_host)
                    THEN /\ stack' = Front(stack)
                         /\ pc' = IF Len(stack) = 1 THEN "done" ELSE pc
                         /\ UNCHANGED raised
                    ELSE LET rest == RemoveFirst(Top.hl_cp, Top.emptiest_host)
                         IN IF most_empty_stack(hosts, rest) = <<>>
                            THEN Raise("IndexError")
                            ELSE /\ stack' = Append(
                                        SetTop([next EXCEPT !.hl_cp = rest]),
                                        NewFrame(hosts, rest))
                                 /\ UNCHANGED <<pc, raised>>
               ELSE Raise(c.raised)
    /\ UNCHANGED <<vm, hosts0, dry_run, strategy, host_list, seen, moved, run, loc>>

magic == M_Enter \/ M_Prepare \/ M_NextSource \/ M_Fill

\* the entry point has returned and is called again, with the same list,
\* on the fleet as the first run left it
SecondRun ==
    /\ pc = "done"
    /\ run = 1
    /\ run' = 2
    /\ pc' = "entry"
    /\ loc' = NoLocals
    /\ seen' = {}
    /\ moved' = NoneMoved
    /\ hosts0' = hosts
    /\ UNCHANGED <<vm, hosts, dry_run, strategy, host_list, stack, raised, last, executor>>

\* an entry point is handed the list of all hosts of the fleet
Init ==
    /\ InitFleet
    /\ strategy \in {"cluster", "magic"}
    /\ host_list = AllHosts
    /\ pc = "entry"

Next == segregate_cluster \/ magic \/ SecondRun

Spec == Init /\ [][Next]_vars

(***************************************************************************)
(* segregate_cluster handed any of HostLists.                              *)
(***************************************************************************)
InitLists ==
    /\ InitFleet
    /\ strategy = "cluster"
    /\ host_list \in HostLists
    /\ pc = "entry"

NextLists == segregate_cluster

SpecLists == InitLists /\ [][NextLists]_vars

(***************************************************************************)
(* SegregationAlgorithm2.py, the variant without memory, affinity groups   *)
(* and dedicated hosts: a VM has an os_type and takes one unit of          *)
(* capacity, a host has vms and capacity_total.  Its names carry a 2       *)
(* where the other file has the same name.                                 *)
(***************************************************************************)
\* Host.__init__: self.capacity_total = 10
capacity_total == 10

\* VM.capacity_required
capacity_required == 1

\* range(50)
Iterations == 50

OsTypes == {"WindowsVM", "LinuxVM"}

capacity_available(h, a) == h[a].capacity_total - Len(h[a].vms)

is_linux(v) == vm[v].os_type = "LinuxVM"

is_windows2(v) == vm[v].os_type = "WindowsVM"

amount_of_windows_vms2(h, a) ==
    Cardinality({i \in DOMAIN h[a].vms : is_windows2(h[a].vms[i])})

\* sorted(host_list, reverse=True), hosts compared by capacity_available
most_empty_stack2(h, hl) ==
    SortDesc(hl, [a \in DOMAIN h |-> capacity_available(h, a)])

\* most_windows_stack2 with the full hosts kept whatever filter_full says
most_windows_stack2_keeps_full(h, hl, filter_full) ==
    SortDesc(hl, [a \in DOMAIN h |-> amount_of_windows_vms2(h, a)])

most_windows_stack2(h, hl, filter_full) ==
    LET _most_win == SelectSeq(hl, LAMBDA a : ~(capacity_available(h, a) <= 0))
        key == [a \in DOMAIN h |-> amount_of_windows_vms2(h, a)]
    IN IF filter_full THEN SortDesc(_most_win, key) ELSE SortDesc(hl, key)

least_windows_stack2(h, hl) ==
    LET _least_win == SelectSeq(hl, LAMBDA a : amount_of_windows_vms2(h, a) > 0)
        key == [a \in DOMAIN h |-> amount_of_windows_vms2(h, a)]
    IN SortAsc(_least_win, key)

migrate_vm2(h, v, src_host, dst_host) ==
    IF src_host = dst_host
    THEN [raised |-> "SameSourceAndDestinationHost", hosts |-> h]
    ELSE IF capacity_available(h, dst_host) >= capacity_required
    THEN IF Contains(h[src_host].vms, v)
         THEN [raised |-> "",
               hosts |-> [h EXCEPT ![src_host].vms = RemoveFirst(@, v),
                                   ![dst_host].vms = Append(@, v)]]
         ELSE [raised |-> "ValueError", hosts |-> h]
    ELSE [raised |-> "DestinationHostFull", hosts |-> h]

\* one call of migrate_vm as the loop sees it
Call2(v, src_host, dst_host) ==
    LET m == migrate_vm2(hosts, v, src_host, dst_host)
    IN [raised |-> m.raised,
        hosts |-> m.hosts,
        last |-> [vm |-> v, src |-> src_host, dst |-> dst_host,
                  dst_free |-> capacity_available(hosts, dst_host),
                  raised |-> m.raised,
                  returned |-> IF m.raised = "" THEN "True" ELSE "",
                  executed |-> FALSE,
                  exec_ok |-> FALSE]]

NoLocals2 ==
    [most_windows_host_lst |-> <<>>, most_empty_host_lst |-> <<>>,
     least_windows_host_lst |-> <<>>, queue |-> <<>>, i |-> 0]

\* lines 247-259: the next i of range(50), the three rankings, the first
\* host of each (printed), the list of Linux VMs of most_windows_host_lst[0]
L2_For ==
    /\ strategy = "loop2"
    /\ pc = "for"
    /\ IF loc.i = Iterations
       THEN /\ pc' = "done"
            /\ UNCHANGED <<loc, raised, stack>>
       ELSE LET mw == most_windows_stack2(hosts, host_list, TRUE)
                me == most_empty_stack2(hosts, host_list)
                lw == least_windows_stack2(hosts, host_list)
            IN IF mw = <<>> \/ me = <<>> \/ lw = <<>>
               THEN /\ Raise("IndexError")
                    /\ UNCHANGED loc
               ELSE /\ loc' = [loc EXCEPT
                             !.most_windows_host_lst = mw,
                             !.most_empty_host_lst = me,
                             !.least_windows_host_lst = lw,
                             !.queue = SelectSeq(hosts[mw[1]].vms, is_linux)]
                    /\ pc' = "linux2"
                    /\ UNCHANGED <<raised, stack>>
    /\ moved' = IF loc.i = Iterations THEN moved
                 ELSE [NoneMoved EXCEPT !.from = hosts]
    /\ UNCHANGED <<vm, hosts, hosts0, dry_run, strategy, host_list, seen, run, last, executor>>

\* lines 259-272: one Linux VM of the most-Windows host is offered to the
\* emptiest host; the first that migrates ends the loop. Then the list of
\* Windows VMs of least_windows_host_lst[0] is taken
L2_Linux ==
    /\ strategy = "loop2"
    /\ pc = "linux2"
    /\ IF loc.queue = <<>>
       THEN /\ loc' = [loc EXCEPT !.queue =
                          SelectSeq(hosts[loc.least_windows_host_lst[1]].vms,
                                    is_windows2)]
            /\ pc' = "windows2"
            /\ UNCHANGED <<hosts, last, raised, stack>>
       ELSE LET c == Call2(Head(loc.queue), loc.most_windows_host_lst[1],
                           loc.most_empty_host_lst[1])
            IN /\ hosts' = c.hosts
               /\ last' = c.last
               /\ IF c.raised = ""
                  THEN /\ loc' = [loc EXCEPT !.queue =
                                     SelectSeq(c.hosts[loc.least_windows_host_lst[1]].vms,
                                               is_windows2)]
                       /\ pc' = "windows2"
                       /\ UNCHANGED <<raised, stack>>
                  ELSE IF c.raised \in {"SameSourceAndDestinationHost",
                                        "DestinationHostFull"}
                  THEN /\ loc' = [loc EXCEPT !.queue = Tail(@)]
                       /\ UNCHANGED <<pc, raised, stack>>
                  ELSE /\ Raise(c.raised)
                       /\ UNCHANGED loc
    /\ UNCHANGED <<vm, hosts0, dry_run, strategy, host_list, seen, moved, run, executor>>

\* lines 272-282: one Windows VM of the least-Windows host is offered to
\* the most-Windows host; the first that migrates ends the loop and the
\* iteration
L2_Windows ==
    /\ strategy = "loop2"
    /\ pc = "windows2"
    /\ IF loc.queue = <<>>
       THEN /\ loc' = [loc EXCEPT !.i = @ + 1]
            /\ pc' = "for"
            /\ UNCHANGED <<hosts, last, raised, stack>>
       ELSE LET c == Call2(Head(loc.queue), loc.least_windows_host_lst[1],
                           loc.most_windows_host_lst[1])
            IN /\ hosts' = c.hosts
               /\ last' = c.last
               /\ IF c.raised = ""
                  THEN /\ loc' = [loc EXCEPT !.queue = <<>>, !.i = @ + 1]
                       /\ pc' = "for"
                       /\ UNCHANGED <<raised, stack>>
                  ELSE IF c.raised \in {"SameSourceAndDestinationHost",
                                        "DestinationHostFull"}
                  THEN /\ loc' = [loc EXCEPT !.queue = Tail(@)]
                       /\ UNCHANGED <<pc, raised, stack>>
                  ELSE /\ Raise(c.raised)
                       /\ UNCHANGED loc
    /\ UNCHANGED <<vm, hosts0, dry_run, strategy, host_list, seen, moved, run, executor>>

main_loop2 == L2_For \/ L2_Linux \/ L2_Windows

(***************************************************************************)
(* Small fleets with room for capacity_total VMs on every host, handed to  *)
(* each of the three programs: segregate_cluster, magic, and the loop of   *)
(* SegregationAlgorithm2.py.  For the first two a VM needs 4 GiB and a     *)
(* host has capacity_total times as much.                                  *)
(***************************************************************************)
PairHosts == 2
PairVMs == 4

InitPair ==
    /\ strategy \in {"cluster", "magic", "loop2"}
    /\ \E windows \in SUBSET (1..PairVMs) :
         vm = [v \in 1..PairVMs |->
                 IF strategy = "loop2"
                 THEN [os_type |-> IF v \in windows THEN "WindowsVM" ELSE "LinuxVM"]
                 ELSE [os_template |-> IF v \in windows THEN "Windows" ELSE "Linux",
                       memory_required |-> 4,
                       affinity_group |-> ""]]
    /\ \E place \in [1..PairVMs -> 1..PairHosts] :
         /\ \A v \in 2..PairVMs : place[v - 1] <= place[v]
         /\ hosts = [a \in 1..PairHosts |->
                       LET on == SelectSeq([i \in 1..PairVMs |-> i],
                                           LAMBDA v : place[v] = a)
                       IN IF strategy = "loop2"
                          THEN [vms |-> on, capacity_total |-> capacity_total]
                          ELSE [vms |-> on,
                                memory_total |-> capacity_total * 4,
                                memory_allocated |-> 4 * Len(on),
                                dedicated |-> FALSE]]
    /\ hosts0 = hosts
    /\ dry_run \in (IF strategy = "loop2" THEN {FALSE} ELSE BOOLEAN)
    /\ host_list = [i \in 1..PairHosts |-> i]
    /\ pc = IF strategy = "loop2" THEN "for" ELSE "entry"
    /\ loc = IF strategy = "loop2" THEN NoLocals2 ELSE NoLocals
    /\ stack = <<>>
    /\ raised = ""
    /\ last = NoCall
    /\ executor = [succeeded |-> FALSE, failed |-> FALSE]
    /\ run = 1
    /\ seen = {}
    /\ moved = NoneMoved

NextPair == segregate_cluster \/ magic \/ main_loop2

SpecPair == InitPair /\ [][NextPair]_vars

(***************************************************************************)
(* The script of SegregationAlgorithm2.py as it is written: its five hosts *)
(* host0..host4 and its VMs vm-1..vm-30 (VM n is vm-n), then its loop.     *)
(***************************************************************************)
\* lines 200-204 and 242: cluster = [host0, host1, host2, host3, host4]
cluster == <<"host0", "host1", "host2", "host3", "host4">>

\* lines 206-239: the VMs appended to each host, in the order of the appends
cluster_vms ==
    [host0 |-> <<1, 2, 3, 4, 5, 6>>,
     host1 |-> <<7, 8, 9, 10, 11, 12>>,
     host2 |-> <<13, 14, 15, 16, 17, 18>>,
     host3 |-> <<19, 20, 21, 22, 23, 24>>,
     host4 |-> <<25, 26, 27, 28, 29, 30>>]

\* lines 206-239: the VMs created with os_type WIN; every other one is UNIX
cluster_windows ==
    {1, 7, 8, 13, 14, 15, 19, 20, 21, 22, 25, 26, 27, 28, 29}

InitScript ==
    /\ strategy = "loop2"
    /\ vm = [v \in 1..30 |->
               [os_type |-> IF v \in cluster_windows THEN "WindowsVM"
                                                     ELSE "LinuxVM"]]
    /\ hosts = [a \in Range(cluster) |->
                  [vms |-> cluster_vms[a], capacity_total |-> capacity_total]]
    /\ hosts0 = hosts
    /\ dry_run = FALSE
    /\ host_list = cluster
    /\ pc = "for"
    /\ loc = NoLocals2
    /\ stack = <<>>
    /\ raised = ""
    /\ last = NoCall
    /\ executor = [succeeded |-> FALSE, failed |-> FALSE]
    /\ run = 1
    /\ seen = {}
    /\ moved = NoneMoved

NextScript == main_loop2

SpecScript == InitScript /\ [][NextScript]_vars

(***************************************************************************)
(* The ranking functions called on their own: a fleet whose hosts have     *)
(* each their own memory_total, and a host list that names every host once *)
(* in any order.  loc holds the function called and what it returned.      *)
(***************************************************************************)
RankVMs == 3

\* every order of the hosts of the fleet
Orders ==
    {o \in [HostIds -> HostIds] : \A a, b \in HostIds : a # b => o[a] # o[b]}

\* every list of at most as many entries as the fleet has hosts, a host
\* named any number of times
AnyLists ==
    UNION {[1..n -> HostIds] : n \in 1..NumHosts}

RankInit(lists) ==
    /\ strategy \in {"rank", "rank2"}
    /\ \E place \in [1..RankVMs -> HostIds] :
         /\ \A v \in 2..RankVMs : place[v - 1] <= place[v]
         /\ IF strategy = "rank2"
            THEN /\ vm \in [1..RankVMs -> [os_type : OsTypes]]
                 /\ hosts = [a \in HostIds |->
                               [vms |-> SelectSeq([i \in 1..RankVMs |-> i],
                                                  LAMBDA v : place[v] = a),
                                capacity_total |-> capacity_total]]
            ELSE /\ vm \in {f \in [1..RankVMs -> [os_template : OsTemplates,
                                                   memory_required : VMMemories,
                                                   affinity_group : AffinityGroups]] :
                              Cardinality({v \in 1..RankVMs : f[v].affinity_group # ""})
                                  <= MaxAffinityVMs}
                 /\ \E total \in [HostIds -> HostMemories],
                       ded \in {d \in SUBSET HostIds : Cardinality(d) <= MaxDedicated} :
                      /\ hosts = [a \in HostIds |->
                                    LET on == SelectSeq([i \in 1..RankVMs |-> i],
                                                        LAMBDA v : place[v] = a)
                                    IN [vms |-> on,
                                        memory_total |-> total[a],
                                        memory_allocated |-> SumSeq(on, memory_required),
                                        dedicated |-> a \in ded]]
                      /\ \A a \in HostIds : hosts[a].memory_allocated <= total[a]
    /\ hosts0 = hosts
    /\ dry_run = FALSE
    /\ host_list \in lists
    /\ pc = "call"
    /\ loc = [fn |-> "", filter_full |-> FALSE, result |-> <<>>]
    /\ stack = <<>>
    /\ raised = ""
    /\ last = NoCall
    /\ executor = [succeeded |-> FALSE, failed |-> FALSE]
    /\ run = 1
    /\ seen = {}
    /\ moved = NoneMoved

InitRank == RankInit(Orders)

\* the call returns: loc holds its name, its flag and its result
Returns(fn, filter_full, result) ==
    /\ pc' = "returned"
    /\ loc' = [fn |-> fn, filter_full |-> filter_full, result |-> result]
    /\ UNCHANGED <<vm, hosts, hosts0, dry_run, strategy, stack, raised, last,
                   executor, host_list, run, seen, moved>>

Rank_most_empty_stack ==
    /\ strategy = "rank"
    /\ pc = "call"
    /\ Returns("most_empty_stack", FALSE, most_empty_stack(hosts, host_list))

Rank_most_windows_stack ==
    /\ strategy = "rank"
    /\ pc = "call"
    /\ \E filter_full \in BOOLEAN :
         Returns("most_windows_stack", filter_full,
                 most_windows_stack(hosts, host_list, filter_full))

Rank_most_empty_stack2 ==
    /\ strategy = "rank2"
    /\ pc = "call"
    /\ Returns("most_empty_stack", FALSE, most_empty_stack2(hosts, host_list))

Rank_most_windows_stack2 ==
    /\ strategy = "rank2"
    /\ pc = "call"
    /\ \E filter_full \in BOOLEAN :
         Returns("most_windows_stack", filter_full,
                 most_windows_stack2(hosts, host_list, filter_full))

\* Host.is_empty, lines 284-290: True if self.vms else False
is_empty(h, a) == IF h[a].vms # <<>> THEN TRUE ELSE FALSE

\* Host.is_empty called on any host of the fleet
Rank_is_empty ==
    /\ strategy = "rank"
    /\ pc = "call"
    /\ \E a \in HostIds :
         Returns("is_empty", FALSE, [host |-> a, value |-> is_empty(hosts, a)])

Rank_least_windows_stack ==
    /\ strategy = "rank"
    /\ pc = "call"
    /\ Returns("least_windows_stack", FALSE, least_windows_stack(hosts, host_list))

NextRank ==
    \/ Rank_most_empty_stack
    \/ Rank_most_windows_stack
    \/ Rank_least_windows_stack
    \/ Rank_is_empty
    \/ Rank_most_empty_stack2
    \/ Rank_most_windows_stack2

SpecRank == InitRank /\ [][NextRank]_vars

\* most_empty_stack called with any list, repeated hosts included, on the
\* fleets without dedicated host (most_empty_stack does not read the flag)
InitRankLists ==
    /\ RankInit(AnyLists)
    /\ strategy = "rank"
    /\ \A a \in HostIds : ~is_dedicated(hosts, a)

NextRankLists == Rank_most_empty_stack

SpecRankLists == InitRankLists /\ [][NextRankLists]_vars

(***************************************************************************)
(* The soft strategy, segregateSoft(hosts, minWindowsThreshold).  loc      *)
(* holds the threshold of the running call, the number of recursions, the  *)
(* destinations in the order they are tried, and the Windows VMs still to  *)
(* be offered, each with its source host.                                  *)
(***************************************************************************)
MaxThreshold == 2

\* allocated memory over total memory, in hundredths, 0 when total is 0
occupancy_ratio(h, a) ==
    IF h[a].memory_total = 0 THEN 0
    ELSE (200 * h[a].memory_allocated + h[a].memory_total)
            \div (2 * h[a].memory_total)

\* the hosts that are not dedicated and hold 1..threshold Windows VMs
soft_src(h, hl, threshold) ==
    SelectSeq(hl, LAMBDA a :
        /\ ~is_dedicated(h, a)
        /\ amount_of_windows_vms(h, a, FALSE) >= 1
        /\ amount_of_windows_vms(h, a, FALSE) <= threshold)

\* the hosts that are not dedicated and hold more Windows VMs than that
soft_dst(h, hl, threshold) ==
    SelectSeq(hl, LAMBDA a :
        /\ ~is_dedicated(h, a)
        /\ amount_of_windows_vms(h, a, FALSE) >= 1
        /\ amount_of_windows_vms(h, a, FALSE) > threshold)

\* the Windows VMs of the source hosts, the hosts in ascending order of
\* their number of Windows VMs, the VMs of a host largest first
RECURSIVE soft_queue(_, _)
soft_queue(h, srcs) ==
    IF srcs = <<>> THEN <<>>
    ELSE LET on == SortDesc(SelectSeq(h[srcs[1]].vms, is_windows), memory_required)
         IN [i \in DOMAIN on |-> [src |-> srcs[1], vm |-> on[i]]]
               \o soft_queue(h, Tail(srcs))

InitSoft ==
    /\ InitFleet
    /\ strategy = "soft"
    /\ host_list = AllHosts
    /\ pc = "entry"

\* the call, with any threshold
Soft_Enter ==
    /\ strategy = "soft"
    /\ pc = "entry"
    /\ pc' = "partition"
    /\ \E threshold \in 0..MaxThreshold :
         loc' = [threshold |-> threshold, depth |-> 0, status |-> "",
                 dst |-> <<>>, queue |-> <<>>, dst_idx |-> 1]
    /\ UNCHANGED <<vm, hosts, hosts0, dry_run, strategy, stack, raised, last,
                   executor, host_list, run, seen, moved>>

\* a recursion that hands the threshold on as it is
Soft_Partition_keeps_threshold ==
    /\ strategy = "soft"
    /\ pc = "partition"
    /\ LET src == soft_src(hosts, host_list, loc.threshold)
           dst == soft_dst(hosts, host_list, loc.threshold)
           key == [a \in DOMAIN hosts |-> amount_of_windows_vms(hosts, a, FALSE)]
           occ == [a \in DOMAIN hosts |-> occupancy_ratio(hosts, a)]
       IN IF src = <<>> /\ dst = <<>>
          THEN /\ pc' = "done"
               /\ loc' = [loc EXCEPT !.status = "NoWork"]
          ELSE IF src = <<>>
          THEN /\ pc' = "done"
               /\ loc' = [loc EXCEPT !.status = "Healthy"]
          ELSE IF dst = <<>>
          THEN IF loc.threshold = 0
               THEN /\ pc' = "done"
                    /\ loc' = [loc EXCEPT !.status = "MaxRecursionReached"]
               ELSE /\ pc' = "partition"
                    /\ loc' = [loc EXCEPT !.depth = @ + 1]
          ELSE /\ pc' = "soft_migrate"
               /\ loc' = [loc EXCEPT !.dst = SortAsc(dst, occ),
                                     !.queue = soft_queue(hosts, SortAsc(src, key)),
                                     !.dst_idx = 1]
    /\ UNCHANGED <<vm, hosts, hosts0, dry_run, strategy, stack, raised, last,
                   executor, host_list, run, seen, moved>>

\* Partition: the four cases of the state machine
Soft_Partition ==
    /\ strategy = "soft"
    /\ pc = "partition"
    /\ LET src == soft_src(hosts, host_list, loc.threshold)
           dst == soft_dst(hosts, host_list, loc.threshold)
           key == [a \in DOMAIN hosts |-> amount_of_windows_vms(hosts, a, FALSE)]
           occ == [a \in DOMAIN hosts |-> occupancy_ratio(hosts, a)]
       IN IF src = <<>> /\ dst = <<>>
          THEN /\ pc' = "done"
               /\ loc' = [loc EXCEPT !.status = "NoWork"]
          ELSE IF src = <<>>
          THEN /\ pc' = "done"
               /\ loc' = [loc EXCEPT !.status = "Healthy"]
          ELSE IF dst = <<>>
          THEN IF loc.threshold = 0
               THEN /\ pc' = "done"
                    /\ loc' = [loc EXCEPT !.status = "MaxRecursionReached"]
               ELSE /\ pc' = "partition"
                    /\ loc' = [loc EXCEPT !.threshold = @ - 1, !.depth = @ + 1]
          ELSE /\ pc' = "soft_migrate"
               /\ loc' = [loc EXCEPT !.dst = SortAsc(dst, occ),
                                     !.queue = soft_queue(hosts, SortAsc(src, key)),
                                     !.dst_idx = 1]
    /\ UNCHANGED <<vm, hosts, hosts0, dry_run, strategy, stack, raised, last,
                   executor, host_list, run, seen, moved>>

\* one Windows VM of a source host is offered to one destination; a
\* rejection is caught and the next destination is tried
Soft_Migrate ==
    /\ strategy = "soft"
    /\ pc = "soft_migrate"
    /\ IF loc.queue = <<>>
       THEN /\ pc' = "done"
            /\ loc' = [loc EXCEPT !.status = "Converged"]
            /\ UNCHANGED <<hosts, last, executor>>
       ELSE IF loc.dst_idx > Len(loc.dst)
       THEN /\ loc' = [loc EXCEPT !.queue = Tail(@), !.dst_idx = 1]
            /\ UNCHANGED <<hosts, last, executor, pc>>
       ELSE LET q == Head(loc.queue)
            IN \E ok \in Answers(q.vm, q.src, loc.dst[loc.dst_idx]) :
                 LET c == Call(q.vm, q.src, loc.dst[loc.dst_idx], ok)
                 IN /\ hosts' = c.hosts
                    /\ last' = c.last
                    /\ executor' = c.executor
                    /\ loc' = IF c.raised = ""
                              THEN [loc EXCEPT !.queue = Tail(@), !.dst_idx = 1]
                              ELSE [loc EXCEPT !.dst_idx = @ + 1]
                    /\ UNCHANGED pc
    /\ UNCHANGED <<vm, hosts0, dry_run, strategy, stack, raised, host_list, run, seen, moved>>

segregateSoft == Soft_Enter \/ Soft_Partition \/ Soft_Migrate

SpecSoft == InitSoft /\ [][segregateSoft]_vars

(***************************************************************************)
(* One migrate_vm call in live mode, with CloudStack.migrate_vm as the     *)
(* executor: the job is started and queryAsyncJobResult is asked until it  *)
(* answers 1 or 2.  loc holds the number of answers 0 so far and what the  *)
(* call leaves when the job ends well and when it ends in error.           *)
(***************************************************************************)
MaxPolls == 3

\* jobstatus: 0 - pending; 1 - success; 2 - error
JobStatus == {0, 1, 2}

InitLive ==
    /\ InitFleet
    /\ ~dry_run
    /\ strategy = "live"
    /\ host_list = AllHosts
    /\ pc = "call"

\* SegregationManager.migrate_vm up to the call of ias_handler.migrate_vm,
\* and CloudStack.migrate_vm up to its loop
Live_Migrate ==
    /\ strategy = "live"
    /\ pc = "call"
    /\ \E src_host \in HostIds, dst_host \in HostIds :
         \E v \in Range(hosts[src_host].vms) :
            LET m == migrate_vm(hosts, v, src_host, dst_host)
                c == Call(v, src_host, dst_host, FALSE)
            IN /\ hosts' = m.hosts
               /\ IF m.raised # ""
                  THEN /\ pc' = "returned"
                       /\ last' = c.last
                       /\ UNCHANGED loc
                  ELSE /\ pc' = "poll"
                       /\ loc' = [polls |-> 0,
                                  on_success |-> Call(v, src_host, dst_host, TRUE),
                                  on_error |-> c]
                       /\ UNCHANGED last
    /\ UNCHANGED <<vm, hosts0, dry_run, strategy, stack, raised, executor,
                   host_list, run, seen, moved>>

\* one pass of the loop of CloudStack.migrate_vm: sleep(3) on 0, return
\* True on 1, return False on 2
CS_Poll ==
    /\ strategy = "live"
    /\ pc = "poll"
    /\ loc.polls < MaxPolls
    /\ \E jobstatus \in JobStatus :
         IF jobstatus = 0
         THEN /\ loc' = [loc EXCEPT !.polls = @ + 1]
              /\ UNCHANGED <<pc, last, executor>>
         ELSE LET c == IF jobstatus = 1 THEN loc.on_success ELSE loc.on_error
              IN /\ pc' = "returned"
                 /\ last' = c.last
                 /\ executor' = c.executor
                 /\ UNCHANGED loc
    /\ UNCHANGED <<vm, hosts, hosts0, dry_run, strategy, stack, raised,
                   host_list, run, seen, moved>>

NextLive == Live_Migrate \/ CS_Poll

SpecLive == InitLive /\ [][NextLive]_vars

(***************************************************************************)
(* Properties.                                                             *)
(***************************************************************************)
Called == last.vm # 0

Rejections ==
    {"MigrateVMWithAffinity", "SameSourceAndDestinationHost", "NotEnoughResources"}

\* the places (host, index) at which v is listed in fleet h
PlacesOf(h, v) == {<<a, i>> \in HostIds \X (1..NumVMs) :
                      i \in DOMAIN h[a].vms /\ h[a].vms[i] = v}

Consistent(h) ==
    \A a \in HostIds : h[a].memory_allocated = SumSeq(h[a].vms, memory_required)

WithinCapacity(h) ==
    \A a \in HostIds : 0 <= h[a].memory_allocated
                        /\ h[a].memory_allocated <= h[a].memory_total

\* C1: in every state of a run of segregate_cluster or magic, whatever
\* migrate_vm calls were accepted or rejected so far, every VM is listed
\* by exactly one host, exactly once.
C1_ExactlyOneOwner ==
    \A v \in VMIds : Cardinality(PlacesOf(hosts, v)) = 1

\* a VM has been migrated, and the last call was rejected
C1_Witness ==
    /\ hosts # hosts0
    /\ Called
    /\ last.raised \in Rejections

\* C2: when memory_allocated of every host of the initial fleet is the sum
\* of memory_required over its VMs, it is so in every state of the run.
C2_AllocatedIsSum ==
    Consistent(hosts0) => Consistent(hosts)

\* a VM has just been migrated: both hosts changed their memory_allocated
C2_Witness ==
    /\ Called
    /\ last.raised = ""
    /\ hosts[last.dst].memory_allocated # hosts0[last.dst].memory_allocated
    /\ hosts[last.src].memory_allocated # hosts0[last.src].memory_allocated

C5_RejectionChangesNothing ==
    [][(last'.vm # 0 /\ last'.raised \in Rejections) => hosts' = hosts]_vars

\* a call rejected for lack of free memory on the destination
C5_Witness ==
    /\ Called
    /\ last.raised = "NotEnoughResources"
    /\ last.src # last.dst

\* C6 as stated: a dedicated host never gains a VM, and every call with a
\* dedicated destination is rejected.
C6_DedicatedNeverGains ==
    /\ \A a \in HostIds :
          hosts[a].dedicated => Range(hosts[a].vms) \subseteq Range(hosts0[a].vms)
    /\ (Called /\ hosts[last.dst].dedicated) => last.raised # ""

\* C7: a VM with an affinity group is, in every state of a run of
\* segregate_cluster or magic, on the host that held it initially.
C7_AffinityVMStays ==
    \A v \in VMIds :
        has_affinity(v) =>
            \A a \in HostIds : Contains(hosts[a].vms, v) <=> Contains(hosts0[a].vms, v)

\* another VM has been migrated and the strategy has then offered a VM with
\* an affinity group to another host
C7_Witness ==
    /\ hosts # hosts0
    /\ Called
    /\ has_affinity(last.vm)
    /\ last.src # last.dst
    /\ last.dst_free >= vm[last.vm].memory_required
    /\ last.raised = "MigrateVMWithAffinity"

C9_FailedExecutorLeavesFleet ==
    (pc = "done" /\ ~dry_run /\ ~executor.succeeded) => hosts = hosts0

\* C10 as stated: when the executor reports a failure, migrate_vm does not
\* return True.
C10_TrueOnlyIfMigrated ==
    (Called /\ last.executed /\ ~last.exec_ok) => last.returned # "True"

Malformed(hl) ==
    \/ hl = <<>>
    \/ Contains(hl, NotAHost)
    \/ \E i, j \in DOMAIN hl : i # j /\ hl[i] = hl[j]

\* C12 as stated: handed a malformed list, segregate_cluster leaves its
\* entry by raising InvalidHostList, with no migrate_vm call made and no
\* host changed.
C12_MalformedListRaisesAtEntry ==
    (strategy = "cluster" /\ Malformed(host_list) /\ pc # "entry")
        => (raised = "InvalidHostList" /\ ~Called /\ hosts = hosts0)

\* C13 as stated: no exception that migrate_vm raises to reject a call
\* leaves segregate_cluster, magic or prepare_emptiest_host.
C13_NoRejectionEscapes ==
    raised \notin Rejections

\* C14 as stated: no strategy takes the first element of an empty ranking,
\* and segregate_cluster, handed a fleet in which most_windows_stack or
\* least_windows_stack finds no host, returns without an exception and
\* without having moved a VM.
C14_EmptyRankingEndsQuietly ==
    /\ raised # "IndexError"
    /\ (/\ strategy = "cluster"
        /\ run = 1
        /\ pc \in {"done", "raised"}
        /\ \/ most_windows_stack(hosts0, host_list, TRUE) = <<>>
           \/ least_windows_stack(hosts0, host_list) = <<>>)
          => (pc = "done" /\ hosts = hosts0)

\* C15 as stated: segregate_cluster leaves its loop after finitely many
\* iterations. What an iteration does is decided by the fleet it begins
\* with, so a run that ends begins no iteration with a fleet with which
\* it began an earlier one.
C15_NoIterationTwice ==
    (strategy = "cluster" /\ pc = "while" /\ loc.iterate) => hosts \notin seen

\* no list of VMs of one host is longer than this
MaxQueue == Cardinality(DOMAIN vm)

\* the steps a call of magic on a list of n hosts can take at most, the
\* calls it makes included: prepare_emptiest_host offers each VM to each
\* other host, the loops of magic visit each source and each of its VMs
RECURSIVE MagicBudget(_)
MagicBudget(n) ==
    IF n = 0 THEN 0
    ELSE MaxQueue * (n + 1) + 1 + (n - 1) * (MaxQueue + 1) + 1 + MagicBudget(n - 1)

\* the steps the call of frame f has left at most
FrameLeft(f) ==
    LET n == Len(f.host_list)
    IN IF f.pc = "prep"
       THEN Len(f.queue) * (Len(f.most_empty_host_lst) + 1) + 1 - (f.dst_idx - 2)
            + (n - 1) * (MaxQueue + 1) + 1 + MagicBudget(n - 1)
       ELSE Len(f.src_hosts) * (MaxQueue + 1) + Len(f.queue) + 1
            + (IF Contains(f.hl_cp, f.emptiest_host) THEN MagicBudget(n - 1) ELSE 0)

RECURSIVE StackLeft(_)
StackLeft(st) ==
    IF st = <<>> THEN 0 ELSE FrameLeft(st[Len(st)]) + StackLeft(Front(st))

\* C16: magic, handed the list of all hosts, comes to an end: every step
\* of it lowers StackLeft, a natural number. Every call within a call is
\* handed the list of its caller without the caller's emptiest host, one
\* host shorter and not empty, so there are never more active calls than
\* hosts, and no first element of an empty ranking is taken.
C16_MagicTerminates ==
    /\ [](strategy = "magic" =>
            /\ raised # "IndexError"
            /\ Len(stack) <= Len(host_list)
            /\ StackLeft(stack) >= 0
            /\ \A k \in DOMAIN stack :
                  /\ stack[k].host_list # <<>>
                  /\ stack[k].most_empty_host_lst # <<>>
                  /\ k > 1 =>
                        /\ stack[k].host_list =
                              RemoveFirst(stack[k - 1].host_list,
                                          stack[k - 1].emptiest_host)
                        /\ ~Contains(stack[k].host_list, stack[k - 1].emptiest_host)
                        /\ Len(stack[k].host_list) = Len(stack[k - 1].host_list) - 1)
    /\ [][(strategy = "magic" /\ pc = "magic")
            => StackLeft(stack') < StackLeft(stack)]_vars

\* a call of magic within a call of magic within the first call
C16_Witness ==
    /\ strategy = "magic"
    /\ Len(stack) = 3

\* the hosts of fleet h that hold a Windows VM
WindowsHosts(h) ==
    {a \in DOMAIN h : \E i \in DOMAIN h[a].vms : is_windows(h[a].vms[i])}

\* C17 as stated: a strategy that has returned and is run again on the
\* fleet it left, all Windows VMs of which are on one host, moves no VM:
\* the vms list of every host stays what it was when the second run began.
C17_SecondRunMovesNothing ==
    (run = 2 /\ Cardinality(WindowsHosts(hosts0)) <= 1)
        => \A a \in DOMAIN hosts : hosts[a].vms = hosts0[a].vms

\* whether VM v is a Windows VM, in the fleet of either file
OsIsWindows(v) ==
    IF strategy = "loop2" THEN is_windows2(v) ELSE is_windows(v)

\* the run began with two hosts, the first holding three Windows VMs and
\* one Linux VM, the second none
ThreeWindowsOneLinux ==
    /\ DOMAIN hosts0 = 1..2
    /\ Len(hosts0[1].vms) = 4
    /\ hosts0[2].vms = <<>>
    /\ Cardinality({v \in DOMAIN vm : OsIsWindows(v)}) = 3

\* the VMs on host a of the running fleet
On(a) == Range(hosts[a].vms)

Free(a) ==
    IF strategy = "rank2" THEN capacity_available(hosts, a)
    ELSE memory_free(hosts, a)

\* what most_empty_stack returns for the list hl
MostEmpty(hl) ==
    IF strategy = "rank2" THEN most_empty_stack2(hosts, hl)
    ELSE most_empty_stack(hosts, hl)

\* C19 as stated: most_empty_stack returns the hosts in descending order of
\* free memory, of two hosts with equal free memory the one with fewer VMs
\* comes first, and every order of the same hosts gives the same result.
C19_MostEmptyOrder ==
    (pc = "returned" /\ loc.fn = "most_empty_stack") =>
        /\ \A i, j \in DOMAIN loc.result :
              i < j =>
                 \/ Free(loc.result[i]) > Free(loc.result[j])
                 \/ /\ Free(loc.result[i]) = Free(loc.result[j])
                    /\ Len(hosts[loc.result[i]].vms) <= Len(hosts[loc.result[j]].vms)
        /\ \A o \in Orders : MostEmpty(o) = loc.result

\* what most_windows_stack counts on host a: every Windows VM
WindowsOn(a) ==
    IF strategy = "rank2" THEN amount_of_windows_vms2(hosts, a)
    ELSE amount_of_windows_vms(hosts, a, FALSE)

\* C20 as stated: most_windows_stack returns no dedicated host, whatever
\* filter_full is; with filter_full True it returns no host whose free
\* memory is below the minimum; the hosts returned are in descending order
\* of their number of Windows VMs, VMs of an affinity group counted.
C20_MostWindowsFilter ==
    (pc = "returned" /\ loc.fn = "most_windows_stack") =>
        /\ strategy = "rank" =>
              \A i \in DOMAIN loc.result : ~is_dedicated(hosts, loc.result[i])
        /\ loc.filter_full =>
              \A i \in DOMAIN loc.result :
                 IF strategy = "rank2" THEN Free(loc.result[i]) > 0
                 ELSE Free(loc.result[i]) >= min_memory_per_host
        /\ \A i, j \in DOMAIN loc.result :
              i < j => WindowsOn(loc.result[i]) >= WindowsOn(loc.result[j])

\* the Windows VMs of host a that have no affinity group
MovableWindowsOn(a) == amount_of_windows_vms(hosts, a, TRUE)

WithinCapacityPlacements ==
    {p \in [DOMAIN vm -> DOMAIN hosts] :
        \A a \in DOMAIN hosts :
           IF strategy = "loop2"
           THEN Cardinality({v \in DOMAIN vm : p[v] = a}) * capacity_required
                    <= hosts[a].capacity_total
           ELSE SumSeq(SelectSeq([i \in DOMAIN vm |-> i], LAMBDA v : p[v] = a),
                       memory_required) <= hosts[a].memory_total}

\* the hosts that hold a Windows VM under placement p
WindowsHostsOf(p) == {p[v] : v \in {w \in DOMAIN vm : OsIsWindows(w)}}

\* the hosts that hold a Windows VM in the running fleet
WindowsHostsNow == {a \in DOMAIN hosts : \E v \in On(a) : OsIsWindows(v)}

\* C22 as stated: when a run has ended on a fleet without dedicated hosts
\* and without affinity groups, no placement within capacity has fewer
\* hosts holding a Windows VM than the fleet has.
C22_FewestWindowsHosts ==
    (pc = "done" /\ strategy \in {"cluster", "loop2"}) =>
        \A p \in WithinCapacityPlacements :
           Cardinality(WindowsHostsOf(p)) >= Cardinality(WindowsHostsNow)

\* what is left of a run of the soft strategy: the recursions the threshold
\* allows and the offers of a VM to a destination still to come
SoftLeft ==
    LET offers == Cardinality(DOMAIN vm) * (Len(host_list) + 1) + 1
    IN IF pc = "entry" THEN (MaxThreshold + 2) * (offers + 1)
       ELSE IF pc = "partition" THEN (loc.threshold + 1) * (offers + 1)
       ELSE IF pc = "soft_migrate"
       THEN Len(loc.queue) * (Len(loc.dst) + 1) - (loc.dst_idx - 1) + 1
       ELSE 0

\* every host of the fleet handed to the run is full
FullFleet == \A a \in DOMAIN hosts0 : memory_free(hosts0, a) = 0

LcIsMc ==
    /\ loc.least_windows_host_lst # <<>>
    /\ loc.most_windows_host_lst # <<>>
    /\ loc.least_windows_host_lst[1] = loc.most_windows_host_lst[1]

\* C24 as stated: the loop of segregate_cluster is left only by its test,
\* after an iteration in which Lc was Mc, and an iteration in which Lc was
\* Mc is followed by no other.
C24_EndsWhenLcIsMc ==
    strategy = "cluster" =>
        /\ pc \in {"done", "raised"} => (pc = "done" /\ LcIsMc)
        /\ (pc = "while" /\ LcIsMc) => ~loc.iterate

\* C25 as stated: an iteration of the loop of segregate_cluster moves at
\* most one Linux VM and at most one Windows VM.
C25_OneOfEachPerIteration ==
    strategy = "cluster" => (moved.linux <= 1 /\ moved.windows <= 1)

\* the hosts that had less than min_memory_per_host free when the running
\* iteration of the loop of segregate_cluster began
BelowMinimum ==
    {a \in DOMAIN moved.from : memory_free(moved.from, a) < min_memory_per_host}

\* C26: a host with less than min_memory_per_host free at the start of an
\* iteration of segregate_cluster holds, as long as that iteration runs,
\* no VM that it did not hold at its start.
C26_BelowMinimumReceivesNothing ==
    strategy = "cluster" =>
        \A a \in BelowMinimum :
           Range(hosts[a].vms) \subseteq Range(moved.from[a].vms)

\* the iteration has moved a VM to another host although a host below the
\* minimum, not the source, had room for it
C26_Witness ==
    /\ strategy = "cluster"
    /\ moved.linux + moved.windows > 0
    /\ Called
    /\ last.raised = ""
    /\ \E a \in BelowMinimum :
          /\ a # last.src
          /\ a # last.dst
          /\ memory_free(moved.from, a) >= vm[last.vm].memory_required

\* how often host a is an entry of list s
Occurrences(s, a) == Cardinality({i \in DOMAIN s : s[i] = a})

\* C27: for every list that is not empty, most_empty_stack returns every
\* host_id of the list once and no other: a permutation of the list when
\* no host_id is repeated, one entry for the entries of equal host_id.
C27_EachHostOnce ==
    (pc = "returned" /\ loc.fn = "most_empty_stack" /\ host_list # <<>>) =>
        /\ Range(loc.result) = Range(host_list)
        /\ \A a \in Range(host_list) : Occurrences(loc.result, a) = 1

\* most_empty_stack has returned for a list that names a host twice,
\* between two hosts with as much free memory as it has
C27_Witness ==
    /\ pc = "returned"
    /\ loc.fn = "most_empty_stack"
    /\ Len(host_list) = 3
    /\ host_list[1] = host_list[3]
    /\ host_list[1] # host_list[2]
    /\ memory_free(hosts, host_list[1]) = memory_free(hosts, host_list[2])

\* C28 as stated, for a job that stays pending: the polling of the job
\* ends, so a job that has answered pending MaxPolls times is asked no
\* more and the call has returned.
C28_PollingEnds ==
    (strategy = "live" /\ pc = "poll") => loc.polls < MaxPolls

\* C29 as stated: is_empty returns True when the host holds no VM and
\* False when it holds one or more.
C29_EmptyMeansNoVM ==
    (pc = "returned" /\ loc.fn = "is_empty") =>
        (loc.result.value <=> hosts[loc.result.host].vms = <<>>)

\* the hosts of fleet h that hold a Windows VM
WindowsHostsIn(h) ==
    {a \in DOMAIN h : \E i \in DOMAIN h[a].vms : OsIsWindows(h[a].vms[i])}

\* C30 as stated: when an iteration of the loop of segregate_cluster, or of
\* the loop of SegregationAlgorithm2.py, is over, no more hosts hold a
\* Windows VM than when it began.
C30_WindowsHostsNeverIncrease ==
    (/\ \/ strategy = "cluster" /\ pc = "while"
        \/ strategy = "loop2" /\ pc = "for"
     /\ moved.from # <<>>) =>
        Cardinality(WindowsHostsIn(hosts)) <= Cardinality(WindowsHostsIn(moved.from))

(***************************************************************************)
(* C31: on the cluster the script builds (5 hosts of capacity 10, 15       *)
(* Windows and 15 Linux VMs) the loop of 50 iterations reaches a fleet     *)
(* that no later iteration changes, in which the 15 Windows VMs are on     *)
(* exactly two hosts, 10 on host4 and 5 on host3, and those two hosts hold *)
(* no Linux VM: the loop ends in that fleet, and a step taken from that    *)
(* fleet leaves every host as it is.                                       *)
(***************************************************************************)
amount_of_linux_vms2(h, a) ==
    Cardinality({i \in DOMAIN h[a].vms : is_linux(h[a].vms[i])})

ScriptSegregated(h) ==
    /\ {a \in DOMAIN h : amount_of_windows_vms2(h, a) > 0} = {"host3", "host4"}
    /\ amount_of_windows_vms2(h, "host4") = 10
    /\ amount_of_windows_vms2(h, "host3") = 5
    /\ amount_of_linux_vms2(h, "host4") = 0
    /\ amount_of_linux_vms2(h, "host3") = 0

C31_ScriptFixedPoint ==
    /\ [](pc = "done" => (raised = "" /\ ScriptSegregated(hosts)))
    /\ [][ScriptSegregated(hosts) => hosts' = hosts]_vars

\* the loop has run its 50 iterations, the last of them from the fleet
\* it ended in
C31_Witness ==
    /\ pc = "done"
    /\ loc.i = Iterations
    /\ moved.from = hosts
    /\ hosts # hosts0
    /\ ScriptSegregated(hosts)

(***************************************************************************)
(* C32: migrate_vm called with a VM that is not in the vms of src_host     *)
(* fails, and the vms and memory_allocated of src_host and of dst_host     *)
(* are after the call what they were before it.                            *)
(***************************************************************************)
C32_ForeignVMChangesNothing ==
    [][(/\ strategy = "api"
        /\ last' # last
        /\ ~Contains(hosts[last'.src].vms, last'.vm))
       => (/\ last'.raised # ""
           /\ hosts'[last'.src] = hosts[last'.src]
           /\ hosts'[last'.dst] = hosts[last'.dst])]_vars

============================================================================
